---- MODULE Spec2Model ----
(***************************************************************************)
(* Model of cycle_check.py: the dependence-edge reader (build_var_graphs), *)
(* the statement-metadata reader (parse_statement_info), Tarjan's SCC      *)
(* decomposition (tarjans_scc) and the cycle matrix (build_cycle_matrix),  *)
(* run in the order main() runs them on one candl file.                    *)
(*                                                                         *)
(* Strings are sequences of character codes (ord), so that Python's string *)
(* order, split, strip, join and int() are computed and not assumed.       *)
(* A Python dict is a record [keys, val]: keys is the insertion order,     *)
(* val the mapping.  A Python list is a sequence.  A Python int read by    *)
(* int() is its decimal numeral (Python ints are unbounded).               *)
(*                                                                         *)
(* Three things the program leaves to the interpreter are inputs: its      *)
(* version (the Unicode tables of \d, \w and int(), and whether min()      *)
(* nests a frame), the limit on the digits int() converts, and the         *)
(* recursion limit.  What the two tools main() runs do is an input too.    *)
(***************************************************************************)
EXTENDS Integers, Sequences, FiniteSets, TLC

VARIABLES
    file,        \* the lines of the .candl file, as Candl writes it (the input)
    pc,          \* position of main(): "tools", "graphs", "info", "matrix",
                 \* "done"
    exception,   \* "None", or the exception that ended main where pc
                 \* stands: "SystemExit", "OSError", "ValueError",
                 \* "RecursionError"
    var_graphs,  \* main.var_graphs: dict var -> dict node -> list of nodes
    stmt_depth,  \* main.stmt_depth: statement -> int
    stmt_iters,  \* main.stmt_iters: statement -> list of iterator names
    vi,          \* number of variables whose matrix has been built
    out,         \* per built variable: nodes, M, and what tarjans_scc did
    python,      \* the CPython version that runs the program (an input)
    max_str_digits,  \* sys.get_int_max_str_digits(), 0: no limit (an input)
    frames       \* nested dfs calls the interpreter allows (an input)

vars == <<file, pc, exception, var_graphs, stmt_depth, stmt_iters, vi, out,
          python, max_str_digits, frames>>

----------------------------------------------------------------------------
(* Strings                                                                 *)

Range(s) == {s[k] : k \in 1..Len(s)}

MinOf(a, b) == IF a <= b THEN a ELSE b

MaxOf(a, b) == IF a >= b THEN a ELSE b

\* Python's str < str: lexicographic by code point, a proper prefix is less.
StrLess(a, b) ==
    \E k \in 1..(MinOf(Len(a), Len(b)) + 1) :
        /\ \A m \in 1..(k - 1) : a[m] = b[m]
        /\ \/ k > Len(a) /\ k <= Len(b)
           \/ k <= Len(a) /\ k <= Len(b) /\ a[k] < b[k]

\* sorted(S) of a set of distinct strings.
RECURSIVE Sorted(_)
Sorted(S) ==
    IF S = {} THEN <<>>
    ELSE LET m == CHOOSE x \in S : \A y \in S \ {x} : StrLess(x, y)
         IN  <<m>> \o Sorted(S \ {m})

\* sep.join(parts)
RECURSIVE Join(_, _)
Join(parts, sep) ==
    IF Len(parts) = 0 THEN <<>>
    ELSE IF Len(parts) = 1 THEN parts[1]
    ELSE parts[1] \o sep \o Join(Tail(parts), sep)

\* s.split(chr(c)): always at least one field.
RECURSIVE Split(_, _)
Split(s, c) ==
    IF \A k \in 1..Len(s) : s[k] # c THEN <<s>>
    ELSE LET p == CHOOSE k \in 1..Len(s) :
                      s[k] = c /\ \A m \in 1..(k - 1) : s[m] # c
         IN  <<SubSeq(s, 1, p - 1)>> \o Split(SubSeq(s, p + 1, Len(s)), c)

\* s.strip(): drops the leading and trailing characters for which
\* str.isspace() holds (tab, line breaks, separators, blank, NEL, NBSP, the
\* Unicode spaces).
IsSpace(c) ==
    c \in (9..13) \cup (28..32) \cup {133, 160, 5760} \cup (8192..8202)
              \cup {8232, 8233, 8239, 8287, 12288}

Strip(s) ==
    IF \A k \in 1..Len(s) : IsSpace(s[k]) THEN <<>>
    ELSE LET lo == CHOOSE k \in 1..Len(s) :
                       ~IsSpace(s[k]) /\ \A m \in 1..(k - 1) : IsSpace(s[m])
             hi == CHOOSE k \in 1..Len(s) :
                       ~IsSpace(s[k]) /\ \A m \in (k + 1)..Len(s) : IsSpace(s[m])
         IN  SubSeq(s, lo, hi)

\* The interpreters: CPython 3.7, the first whose subprocess.run takes
\* capture_output and text (line 146), to 3.13.
Pythons == {"3.7", "3.8", "3.9", "3.10", "3.11", "3.12", "3.13"}

\* unicodedata.unidata_version of the interpreter, times ten.
UnicodeOf(py) ==
    CASE py = "3.7"  -> 110
      [] py = "3.8"  -> 121
      [] py = "3.9"  -> 130
      [] py = "3.10" -> 130
      [] py = "3.11" -> 140
      [] py = "3.12" -> 150
      [] py = "3.13" -> 151

\* \d of a str pattern matches every Unicode decimal digit (category Nd)
\* the interpreter's table knows, and int() converts the same characters;
\* the digits of one script are ten consecutive code points from its zero.
\* The zeros of Unicode 11.0, and those added up to 12.1, 13.0, 14.0 and
\* 15.0.
DigitZeros(py) ==
    {48, 1632, 1776, 1984, 2406, 2534, 2662, 2790, 2918, 3046, 3174, 3302,
     3430, 3558, 3664, 3792, 3872, 4160, 4240, 6112, 6160, 6470, 6608, 6784,
     6800, 6992, 7088, 7232, 7248, 42528, 43216, 43264, 43472, 43504, 43600,
     44016, 65296, 66720, 68912, 69734, 69872, 69942, 70096, 70384, 70736,
     70864, 71248, 71360, 71472, 71904, 72784, 73040, 73120, 92768, 93008,
     120782, 120792, 120802, 120812, 120822, 125264}
      \cup (IF UnicodeOf(py) >= 121 THEN {123200, 123632} ELSE {})
      \cup (IF UnicodeOf(py) >= 130 THEN {72016, 130032} ELSE {})
      \cup (IF UnicodeOf(py) >= 140 THEN {92864} ELSE {})
      \cup (IF UnicodeOf(py) >= 150 THEN {73552, 124144} ELSE {})

IsAsciiDigit(c) == 48 <= c /\ c <= 57

IsDigit(py, c) ==
    \/ IsAsciiDigit(c)
    \/ \E z \in DigitZeros(py) : z <= c /\ c <= z + 9

DigitValue(py, c) ==
    IF IsAsciiDigit(c) THEN c - 48
    ELSE c - (CHOOSE z \in DigitZeros(py) : z <= c /\ c <= z + 9)

\* \d+
AllDigits(py, d) == Len(d) > 0 /\ \A k \in 1..Len(d) : IsDigit(py, d[k])

\* S\d+
IsStatement(py, s) == Len(s) > 1 /\ s[1] = 83 /\ AllDigits(py, Tail(s))

\* the part of d that \d+ takes at its start (\d+ is greedy), <<>> when d
\* does not start with a digit.
DigitPrefix(py, d) ==
    SubSeq(d, 1, Cardinality({k \in 1..Len(d) : \A m \in 1..k : IsDigit(py, d[m])}))

\* \w of a str pattern matches "_" and every character for which
\* str.isalnum() holds in the interpreter's table (a letter, or a character
\* with a numeric value).  The characters above ASCII, as <<first, last,
\* v>>: the code points first..last are such characters from Unicode v on
\* (v = 110 for all that 11.0 has; U+1CF2 and U+1CF3 were in 11.0 as marks
\* and are letters from 12.0 on).
WordRanges ==
    {<<170, 170, 110>>, <<178, 179, 110>>, <<181, 181, 110>>,
     <<185, 186, 110>>, <<188, 190, 110>>, <<192, 214, 110>>,
     <<216, 246, 110>>, <<248, 705, 110>>, <<710, 721, 110>>,
     <<736, 740, 110>>, <<748, 748, 110>>, <<750, 750, 110>>,
     <<880, 884, 110>>, <<886, 887, 110>>, <<890, 893, 110>>,
     <<895, 895, 110>>, <<902, 902, 110>>, <<904, 906, 110>>,
     <<908, 908, 110>>, <<910, 929, 110>>, <<931, 1013, 110>>,
     <<1015, 1153, 110>>, <<1162, 1327, 110>>, <<1329, 1366, 110>>,
     <<1369, 1369, 110>>, <<1376, 1416, 110>>, <<1488, 1514, 110>>,
     <<1519, 1522, 110>>, <<1568, 1610, 110>>, <<1632, 1641, 110>>,
     <<1646, 1647, 110>>, <<1649, 1747, 110>>, <<1749, 1749, 110>>,
     <<1765, 1766, 110>>, <<1774, 1788, 110>>, <<1791, 1791, 110>>,
     <<1808, 1808, 110>>, <<1810, 1839, 110>>, <<1869, 1957, 110>>,
     <<1969, 1969, 110>>, <<1984, 2026, 110>>, <<2036, 2037, 110>>,
     <<2042, 2042, 110>>, <<2048, 2069, 110>>, <<2074, 2074, 110>>,
     <<2084, 2084, 110>>, <<2088, 2088, 110>>, <<2112, 2136, 110>>,
     <<2144, 2154, 110>>, <<2160, 2183, 140>>, <<2185, 2190, 140>>,
     <<2208, 2228, 110>>, <<2229, 2229, 140>>, <<2230, 2237, 110>>,
     <<2238, 2247, 130>>, <<2248, 2249, 140>>, <<2308, 2361, 110>>,
     <<2365, 2365, 110>>, <<2384, 2384, 110>>, <<2392, 2401, 110>>,
     <<2406, 2415, 110>>, <<2417, 2432, 110>>, <<2437, 2444, 110>>,
     <<2447, 2448, 110>>, <<2451, 2472, 110>>, <<2474, 2480, 110>>,
     <<2482, 2482, 110>>, <<2486, 2489, 110>>, <<2493, 2493, 110>>,
     <<2510, 2510, 110>>, <<2524, 2525, 110>>, <<2527, 2529, 110>>,
     <<2534, 2545, 110>>, <<2548, 2553, 110>>, <<2556, 2556, 110>>,
     <<2565, 2570, 110>>, <<2575, 2576, 110>>, <<2579, 2600, 110>>,
     <<2602, 2608, 110>>, <<2610, 2611, 110>>, <<2613, 2614, 110>>,
     <<2616, 2617, 110>>, <<2649, 2652, 110>>, <<2654, 2654, 110>>,
     <<2662, 2671, 110>>, <<2674, 2676, 110>>, <<2693, 2701, 110>>,
     <<2703, 2705, 110>>, <<2707, 2728, 110>>, <<2730, 2736, 110>>,
     <<2738, 2739, 110>>, <<2741, 2745, 110>>, <<2749, 2749, 110>>,
     <<2768, 2768, 110>>, <<2784, 2785, 110>>, <<2790, 2799, 110>>,
     <<2809, 2809, 110>>, <<2821, 2828, 110>>, <<2831, 2832, 110>>,
     <<2835, 2856, 110>>, <<2858, 2864, 110>>, <<2866, 2867, 110>>,
     <<2869, 2873, 110>>, <<2877, 2877, 110>>, <<2908, 2909, 110>>,
     <<2911, 2913, 110>>, <<2918, 2927, 110>>, <<2929, 2935, 110>>,
     <<2947, 2947, 110>>, <<2949, 2954, 110>>, <<2958, 2960, 110>>,
     <<2962, 2965, 110>>, <<2969, 2970, 110>>, <<2972, 2972, 110>>,
     <<2974, 2975, 110>>, <<2979, 2980, 110>>, <<2984, 2986, 110>>,
     <<2990, 3001, 110>>, <<3024, 3024, 110>>, <<3046, 3058, 110>>,
     <<3077, 3084, 110>>, <<3086, 3088, 110>>, <<3090, 3112, 110>>,
     <<3114, 3129, 110>>, <<3133, 3133, 110>>, <<3160, 3162, 110>>,
     <<3165, 3165, 140>>, <<3168, 3169, 110>>, <<3174, 3183, 110>>,
     <<3192, 3198, 110>>, <<3200, 3200, 110>>, <<3205, 3212, 110>>,
     <<3214, 3216, 110>>, <<3218, 3240, 110>>, <<3242, 3251, 110>>,
     <<3253, 3257, 110>>, <<3261, 3261, 110>>, <<3293, 3293, 140>>,
     <<3294, 3294, 110>>, <<3296, 3297, 110>>, <<3302, 3311, 110>>,
     <<3313, 3314, 110>>, <<3332, 3332, 130>>, <<3333, 3340, 110>>,
     <<3342, 3344, 110>>, <<3346, 3386, 110>>, <<3389, 3389, 110>>,
     <<3406, 3406, 110>>, <<3412, 3414, 110>>, <<3416, 3425, 110>>,
     <<3430, 3448, 110>>, <<3450, 3455, 110>>, <<3461, 3478, 110>>,
     <<3482, 3505, 110>>, <<3507, 3515, 110>>, <<3517, 3517, 110>>,
     <<3520, 3526, 110>>, <<3558, 3567, 110>>, <<3585, 3632, 110>>,
     <<3634, 3635, 110>>, <<3648, 3654, 110>>, <<3664, 3673, 110>>,
     <<3713, 3714, 110>>, <<3716, 3716, 110>>, <<3718, 3718, 121>>,
     <<3719, 3720, 110>>, <<3721, 3721, 121>>, <<3722, 3722, 110>>,
     <<3724, 3724, 121>>, <<3725, 3725, 110>>, <<3726, 3731, 121>>,
     <<3732, 3735, 110>>, <<3736, 3736, 121>>, <<3737, 3743, 110>>,
     <<3744, 3744, 121>>, <<3745, 3747, 110>>, <<3749, 3749, 110>>,
     <<3751, 3751, 110>>, <<3752, 3753, 121>>, <<3754, 3755, 110>>,
     <<3756, 3756, 121>>, <<3757, 3760, 110>>, <<3762, 3763, 110>>,
     <<3773, 3773, 110>>, <<3776, 3780, 110>>, <<3782, 3782, 110>>,
     <<3792, 3801, 110>>, <<3804, 3807, 110>>, <<3840, 3840, 110>>,
     <<3872, 3891, 110>>, <<3904, 3911, 110>>, <<3913, 3948, 110>>,
     <<3976, 3980, 110>>, <<4096, 4138, 110>>, <<4159, 4169, 110>>,
     <<4176, 4181, 110>>, <<4186, 4189, 110>>, <<4193, 4193, 110>>,
     <<4197, 4198, 110>>, <<4206, 4208, 110>>, <<4213, 4225, 110>>,
     <<4238, 4238, 110>>, <<4240, 4249, 110>>, <<4256, 4293, 110>>,
     <<4295, 4295, 110>>, <<4301, 4301, 110>>, <<4304, 4346, 110>>,
     <<4348, 4680, 110>>, <<4682, 4685, 110>>, <<4688, 4694, 110>>,
     <<4696, 4696, 110>>, <<4698, 4701, 110>>, <<4704, 4744, 110>>,
     <<4746, 4749, 110>>, <<4752, 4784, 110>>, <<4786, 4789, 110>>,
     <<4792, 4798, 110>>, <<4800, 4800, 110>>, <<4802, 4805, 110>>,
     <<4808, 4822, 110>>, <<4824, 4880, 110>>, <<4882, 4885, 110>>,
     <<4888, 4954, 110>>, <<4969, 4988, 110>>, <<4992, 5007, 110>>,
     <<5024, 5109, 110>>, <<5112, 5117, 110>>, <<5121, 5740, 110>>,
     <<5743, 5759, 110>>, <<5761, 5786, 110>>, <<5792, 5866, 110>>,
     <<5870, 5880, 110>>, <<5888, 5900, 110>>, <<5901, 5901, 140>>,
     <<5902, 5905, 110>>, <<5919, 5919, 140>>, <<5920, 5937, 110>>,
     <<5952, 5969, 110>>, <<5984, 5996, 110>>, <<5998, 6000, 110>>,
     <<6016, 6067, 110>>, <<6103, 6103, 110>>, <<6108, 6108, 110>>,
     <<6112, 6121, 110>>, <<6128, 6137, 110>>, <<6160, 6169, 110>>,
     <<6176, 6264, 110>>, <<6272, 6276, 110>>, <<6279, 6312, 110>>,
     <<6314, 6314, 110>>, <<6320, 6389, 110>>, <<6400, 6430, 110>>,
     <<6470, 6509, 110>>, <<6512, 6516, 110>>, <<6528, 6571, 110>>,
     <<6576, 6601, 110>>, <<6608, 6618, 110>>, <<6656, 6678, 110>>,
     <<6688, 6740, 110>>, <<6784, 6793, 110>>, <<6800, 6809, 110>>,
     <<6823, 6823, 110>>, <<6917, 6963, 110>>, <<6981, 6987, 110>>,
     <<6988, 6988, 140>>, <<6992, 7001, 110>>, <<7043, 7072, 110>>,
     <<7086, 7141, 110>>, <<7168, 7203, 110>>, <<7232, 7241, 110>>,
     <<7245, 7293, 110>>, <<7296, 7304, 110>>, <<7312, 7354, 110>>,
     <<7357, 7359, 110>>, <<7401, 7404, 110>>, <<7406, 7409, 110>>, <<7410, 7411, 121>>,
     <<7413, 7414, 110>>, <<7418, 7418, 121>>, <<7424, 7615, 110>>,
     <<7680, 7957, 110>>, <<7960, 7965, 110>>, <<7968, 8005, 110>>,
     <<8008, 8013, 110>>, <<8016, 8023, 110>>, <<8025, 8025, 110>>,
     <<8027, 8027, 110>>, <<8029, 8029, 110>>, <<8031, 8061, 110>>,
     <<8064, 8116, 110>>, <<8118, 8124, 110>>, <<8126, 8126, 110>>,
     <<8130, 8132, 110>>, <<8134, 8140, 110>>, <<8144, 8147, 110>>,
     <<8150, 8155, 110>>, <<8160, 8172, 110>>, <<8178, 8180, 110>>,
     <<8182, 8188, 110>>, <<8304, 8305, 110>>, <<8308, 8313, 110>>,
     <<8319, 8329, 110>>, <<8336, 8348, 110>>, <<8450, 8450, 110>>,
     <<8455, 8455, 110>>, <<8458, 8467, 110>>, <<8469, 8469, 110>>,
     <<8473, 8477, 110>>, <<8484, 8484, 110>>, <<8486, 8486, 110>>,
     <<8488, 8488, 110>>, <<8490, 8493, 110>>, <<8495, 8505, 110>>,
     <<8508, 8511, 110>>, <<8517, 8521, 110>>, <<8526, 8526, 110>>,
     <<8528, 8585, 110>>, <<9312, 9371, 110>>, <<9450, 9471, 110>>,
     <<10102, 10131, 110>>, <<11264, 11310, 110>>, <<11311, 11311, 140>>,
     <<11312, 11358, 110>>, <<11359, 11359, 140>>, <<11360, 11492, 110>>,
     <<11499, 11502, 110>>, <<11506, 11507, 110>>, <<11517, 11517, 110>>,
     <<11520, 11557, 110>>, <<11559, 11559, 110>>, <<11565, 11565, 110>>,
     <<11568, 11623, 110>>, <<11631, 11631, 110>>, <<11648, 11670, 110>>,
     <<11680, 11686, 110>>, <<11688, 11694, 110>>, <<11696, 11702, 110>>,
     <<11704, 11710, 110>>, <<11712, 11718, 110>>, <<11720, 11726, 110>>,
     <<11728, 11734, 110>>, <<11736, 11742, 110>>, <<11823, 11823, 110>>,
     <<12293, 12295, 110>>, <<12321, 12329, 110>>, <<12337, 12341, 110>>,
     <<12344, 12348, 110>>, <<12353, 12438, 110>>, <<12445, 12447, 110>>,
     <<12449, 12538, 110>>, <<12540, 12543, 110>>, <<12549, 12591, 110>>,
     <<12593, 12686, 110>>, <<12690, 12693, 110>>, <<12704, 12730, 110>>,
     <<12731, 12735, 130>>, <<12784, 12799, 110>>, <<12832, 12841, 110>>,
     <<12872, 12879, 110>>, <<12881, 12895, 110>>, <<12928, 12937, 110>>,
     <<12977, 12991, 110>>, <<13312, 19893, 110>>, <<19894, 19903, 130>>,
     <<19968, 40943, 110>>, <<40944, 40956, 130>>, <<40957, 40959, 140>>,
     <<40960, 42124, 110>>, <<42192, 42237, 110>>, <<42240, 42508, 110>>,
     <<42512, 42539, 110>>, <<42560, 42606, 110>>, <<42623, 42653, 110>>,
     <<42656, 42735, 110>>, <<42775, 42783, 110>>, <<42786, 42888, 110>>,
     <<42891, 42937, 110>>, <<42938, 42943, 121>>, <<42944, 42945, 140>>,
     <<42946, 42950, 121>>, <<42951, 42954, 130>>, <<42960, 42961, 140>>,
     <<42963, 42963, 140>>, <<42965, 42969, 140>>, <<42994, 42996, 140>>,
     <<42997, 42998, 130>>, <<42999, 43009, 110>>, <<43011, 43013, 110>>,
     <<43015, 43018, 110>>, <<43020, 43042, 110>>, <<43056, 43061, 110>>,
     <<43072, 43123, 110>>, <<43138, 43187, 110>>, <<43216, 43225, 110>>,
     <<43250, 43255, 110>>, <<43259, 43259, 110>>, <<43261, 43262, 110>>,
     <<43264, 43301, 110>>, <<43312, 43334, 110>>, <<43360, 43388, 110>>,
     <<43396, 43442, 110>>, <<43471, 43481, 110>>, <<43488, 43492, 110>>,
     <<43494, 43518, 110>>, <<43520, 43560, 110>>, <<43584, 43586, 110>>,
     <<43588, 43595, 110>>, <<43600, 43609, 110>>, <<43616, 43638, 110>>,
     <<43642, 43642, 110>>, <<43646, 43695, 110>>, <<43697, 43697, 110>>,
     <<43701, 43702, 110>>, <<43705, 43709, 110>>, <<43712, 43712, 110>>,
     <<43714, 43714, 110>>, <<43739, 43741, 110>>, <<43744, 43754, 110>>,
     <<43762, 43764, 110>>, <<43777, 43782, 110>>, <<43785, 43790, 110>>,
     <<43793, 43798, 110>>, <<43808, 43814, 110>>, <<43816, 43822, 110>>,
     <<43824, 43866, 110>>, <<43868, 43877, 110>>, <<43878, 43879, 121>>,
     <<43880, 43881, 130>>, <<43888, 44002, 110>>, <<44016, 44025, 110>>,
     <<44032, 55203, 110>>, <<55216, 55238, 110>>, <<55243, 55291, 110>>,
     <<63744, 64109, 110>>, <<64112, 64217, 110>>, <<64256, 64262, 110>>,
     <<64275, 64279, 110>>, <<64285, 64285, 110>>, <<64287, 64296, 110>>,
     <<64298, 64310, 110>>, <<64312, 64316, 110>>, <<64318, 64318, 110>>,
     <<64320, 64321, 110>>, <<64323, 64324, 110>>, <<64326, 64433, 110>>,
     <<64467, 64829, 110>>, <<64848, 64911, 110>>, <<64914, 64967, 110>>,
     <<65008, 65019, 110>>, <<65136, 65140, 110>>, <<65142, 65276, 110>>,
     <<65296, 65305, 110>>, <<65313, 65338, 110>>, <<65345, 65370, 110>>,
     <<65382, 65470, 110>>, <<65474, 65479, 110>>, <<65482, 65487, 110>>,
     <<65490, 65495, 110>>, <<65498, 65500, 110>>, <<65536, 65547, 110>>,
     <<65549, 65574, 110>>, <<65576, 65594, 110>>, <<65596, 65597, 110>>,
     <<65599, 65613, 110>>, <<65616, 65629, 110>>, <<65664, 65786, 110>>,
     <<65799, 65843, 110>>, <<65856, 65912, 110>>, <<65930, 65931, 110>>,
     <<66176, 66204, 110>>, <<66208, 66256, 110>>, <<66273, 66299, 110>>,
     <<66304, 66339, 110>>, <<66349, 66378, 110>>, <<66384, 66421, 110>>,
     <<66432, 66461, 110>>, <<66464, 66499, 110>>, <<66504, 66511, 110>>,
     <<66513, 66517, 110>>, <<66560, 66717, 110>>, <<66720, 66729, 110>>,
     <<66736, 66771, 110>>, <<66776, 66811, 110>>, <<66816, 66855, 110>>,
     <<66864, 66915, 110>>, <<66928, 66938, 140>>, <<66940, 66954, 140>>,
     <<66956, 66962, 140>>, <<66964, 66965, 140>>, <<66967, 66977, 140>>,
     <<66979, 66993, 140>>, <<66995, 67001, 140>>, <<67003, 67004, 140>>,
     <<67072, 67382, 110>>, <<67392, 67413, 110>>, <<67424, 67431, 110>>,
     <<67456, 67461, 140>>, <<67463, 67504, 140>>, <<67506, 67514, 140>>,
     <<67584, 67589, 110>>, <<67592, 67592, 110>>, <<67594, 67637, 110>>,
     <<67639, 67640, 110>>, <<67644, 67644, 110>>, <<67647, 67669, 110>>,
     <<67672, 67702, 110>>, <<67705, 67742, 110>>, <<67751, 67759, 110>>,
     <<67808, 67826, 110>>, <<67828, 67829, 110>>, <<67835, 67867, 110>>,
     <<67872, 67897, 110>>, <<67968, 68023, 110>>, <<68028, 68047, 110>>,
     <<68050, 68096, 110>>, <<68112, 68115, 110>>, <<68117, 68119, 110>>,
     <<68121, 68149, 110>>, <<68160, 68168, 110>>, <<68192, 68222, 110>>,
     <<68224, 68255, 110>>, <<68288, 68295, 110>>, <<68297, 68324, 110>>,
     <<68331, 68335, 110>>, <<68352, 68405, 110>>, <<68416, 68437, 110>>,
     <<68440, 68466, 110>>, <<68472, 68497, 110>>, <<68521, 68527, 110>>,
     <<68608, 68680, 110>>, <<68736, 68786, 110>>, <<68800, 68850, 110>>,
     <<68858, 68899, 110>>, <<68912, 68921, 110>>, <<69216, 69246, 110>>,
     <<69248, 69289, 130>>, <<69296, 69297, 130>>, <<69376, 69415, 110>>,
     <<69424, 69445, 110>>, <<69457, 69460, 110>>, <<69488, 69505, 140>>,
     <<69552, 69579, 130>>, <<69600, 69622, 121>>, <<69635, 69687, 110>>,
     <<69714, 69743, 110>>, <<69745, 69746, 140>>, <<69749, 69749, 140>>,
     <<69763, 69807, 110>>, <<69840, 69864, 110>>, <<69872, 69881, 110>>,
     <<69891, 69926, 110>>, <<69942, 69951, 110>>, <<69956, 69956, 110>>,
     <<69959, 69959, 130>>, <<69968, 70002, 110>>, <<70006, 70006, 110>>,
     <<70019, 70066, 110>>, <<70081, 70084, 110>>, <<70096, 70106, 110>>,
     <<70108, 70108, 110>>, <<70113, 70132, 110>>, <<70144, 70161, 110>>,
     <<70163, 70187, 110>>, <<70207, 70208, 150>>, <<70272, 70278, 110>>,
     <<70280, 70280, 110>>, <<70282, 70285, 110>>, <<70287, 70301, 110>>,
     <<70303, 70312, 110>>, <<70320, 70366, 110>>, <<70384, 70393, 110>>,
     <<70405, 70412, 110>>, <<70415, 70416, 110>>, <<70419, 70440, 110>>,
     <<70442, 70448, 110>>, <<70450, 70451, 110>>, <<70453, 70457, 110>>,
     <<70461, 70461, 110>>, <<70480, 70480, 110>>, <<70493, 70497, 110>>,
     <<70656, 70708, 110>>, <<70727, 70730, 110>>, <<70736, 70745, 110>>,
     <<70751, 70751, 121>>, <<70752, 70753, 130>>, <<70784, 70831, 110>>,
     <<70852, 70853, 110>>, <<70855, 70855, 110>>, <<70864, 70873, 110>>,
     <<71040, 71086, 110>>, <<71128, 71131, 110>>, <<71168, 71215, 110>>,
     <<71236, 71236, 110>>, <<71248, 71257, 110>>, <<71296, 71338, 110>>,
     <<71352, 71352, 121>>, <<71360, 71369, 110>>, <<71424, 71450, 110>>,
     <<71472, 71483, 110>>, <<71488, 71494, 140>>, <<71680, 71723, 110>>,
     <<71840, 71922, 110>>, <<71935, 71935, 110>>, <<71936, 71942, 130>>,
     <<71945, 71945, 130>>, <<71948, 71955, 130>>, <<71957, 71958, 130>>,
     <<71960, 71983, 130>>, <<71999, 71999, 130>>, <<72001, 72001, 130>>,
     <<72016, 72025, 130>>, <<72096, 72103, 121>>, <<72106, 72144, 121>>,
     <<72161, 72161, 121>>, <<72163, 72163, 121>>, <<72192, 72192, 110>>,
     <<72203, 72242, 110>>, <<72250, 72250, 110>>, <<72272, 72272, 110>>,
     <<72284, 72323, 110>>, <<72324, 72325, 121>>, <<72326, 72329, 110>>,
     <<72349, 72349, 110>>, <<72368, 72383, 140>>, <<72384, 72440, 110>>,
     <<72704, 72712, 110>>, <<72714, 72750, 110>>, <<72768, 72768, 110>>,
     <<72784, 72812, 110>>, <<72818, 72847, 110>>, <<72960, 72966, 110>>,
     <<72968, 72969, 110>>, <<72971, 73008, 110>>, <<73030, 73030, 110>>,
     <<73040, 73049, 110>>, <<73056, 73061, 110>>, <<73063, 73064, 110>>,
     <<73066, 73097, 110>>, <<73112, 73112, 110>>, <<73120, 73129, 110>>,
     <<73440, 73458, 110>>, <<73474, 73474, 150>>, <<73476, 73488, 150>>,
     <<73490, 73523, 150>>, <<73552, 73561, 150>>, <<73648, 73648, 130>>,
     <<73664, 73684, 121>>, <<73728, 74649, 110>>, <<74752, 74862, 110>>,
     <<74880, 75075, 110>>, <<77712, 77808, 140>>, <<77824, 78894, 110>>,
     <<78895, 78895, 150>>, <<78913, 78918, 150>>, <<82944, 83526, 110>>,
     <<92160, 92728, 110>>, <<92736, 92766, 110>>, <<92768, 92777, 110>>,
     <<92784, 92862, 140>>, <<92864, 92873, 140>>, <<92880, 92909, 110>>,
     <<92928, 92975, 110>>, <<92992, 92995, 110>>, <<93008, 93017, 110>>,
     <<93019, 93025, 110>>, <<93027, 93047, 110>>, <<93053, 93071, 110>>,
     <<93760, 93846, 110>>, <<93952, 94020, 110>>, <<94021, 94026, 121>>,
     <<94032, 94032, 110>>, <<94099, 94111, 110>>, <<94176, 94177, 110>>,
     <<94179, 94179, 121>>, <<94208, 100337, 110>>, <<100338, 100343, 121>>,
     <<100352, 101106, 110>>, <<101107, 101589, 130>>,
     <<101632, 101640, 130>>, <<110576, 110579, 140>>,
     <<110581, 110587, 140>>, <<110589, 110590, 140>>,
     <<110592, 110878, 110>>, <<110879, 110882, 140>>,
     <<110898, 110898, 150>>, <<110928, 110930, 121>>,
     <<110933, 110933, 150>>, <<110948, 110951, 121>>,
     <<110960, 111355, 110>>, <<113664, 113770, 110>>,
     <<113776, 113788, 110>>, <<113792, 113800, 110>>,
     <<113808, 113817, 110>>, <<119488, 119507, 150>>,
     <<119520, 119539, 110>>, <<119648, 119672, 110>>,
     <<119808, 119892, 110>>, <<119894, 119964, 110>>,
     <<119966, 119967, 110>>, <<119970, 119970, 110>>,
     <<119973, 119974, 110>>, <<119977, 119980, 110>>,
     <<119982, 119993, 110>>, <<119995, 119995, 110>>,
     <<119997, 120003, 110>>, <<120005, 120069, 110>>,
     <<120071, 120074, 110>>, <<120077, 120084, 110>>,
     <<120086, 120092, 110>>, <<120094, 120121, 110>>,
     <<120123, 120126, 110>>, <<120128, 120132, 110>>,
     <<120134, 120134, 110>>, <<120138, 120144, 110>>,
     <<120146, 120485, 110>>, <<120488, 120512, 110>>,
     <<120514, 120538, 110>>, <<120540, 120570, 110>>,
     <<120572, 120596, 110>>, <<120598, 120628, 110>>,
     <<120630, 120654, 110>>, <<120656, 120686, 110>>,
     <<120688, 120712, 110>>, <<120714, 120744, 110>>,
     <<120746, 120770, 110>>, <<120772, 120779, 110>>,
     <<120782, 120831, 110>>, <<122624, 122654, 140>>,
     <<122661, 122666, 150>>, <<122928, 122989, 150>>,
     <<123136, 123180, 121>>, <<123191, 123197, 121>>,
     <<123200, 123209, 121>>, <<123214, 123214, 121>>,
     <<123536, 123565, 140>>, <<123584, 123627, 121>>,
     <<123632, 123641, 121>>, <<124112, 124139, 150>>,
     <<124144, 124153, 150>>, <<124896, 124902, 140>>,
     <<124904, 124907, 140>>, <<124909, 124910, 140>>,
     <<124912, 124926, 140>>, <<124928, 125124, 110>>,
     <<125127, 125135, 110>>, <<125184, 125251, 110>>,
     <<125259, 125259, 121>>, <<125264, 125273, 110>>,
     <<126065, 126123, 110>>, <<126125, 126127, 110>>,
     <<126129, 126132, 110>>, <<126209, 126253, 121>>,
     <<126255, 126269, 121>>, <<126464, 126467, 110>>,
     <<126469, 126495, 110>>, <<126497, 126498, 110>>,
     <<126500, 126500, 110>>, <<126503, 126503, 110>>,
     <<126505, 126514, 110>>, <<126516, 126519, 110>>,
     <<126521, 126521, 110>>, <<126523, 126523, 110>>,
     <<126530, 126530, 110>>, <<126535, 126535, 110>>,
     <<126537, 126537, 110>>, <<126539, 126539, 110>>,
     <<126541, 126543, 110>>, <<126545, 126546, 110>>,
     <<126548, 126548, 110>>, <<126551, 126551, 110>>,
     <<126553, 126553, 110>>, <<126555, 126555, 110>>,
     <<126557, 126557, 110>>, <<126559, 126559, 110>>,
     <<126561, 126562, 110>>, <<126564, 126564, 110>>,
     <<126567, 126570, 110>>, <<126572, 126578, 110>>,
     <<126580, 126583, 110>>, <<126585, 126588, 110>>,
     <<126590, 126590, 110>>, <<126592, 126601, 110>>,
     <<126603, 126619, 110>>, <<126625, 126627, 110>>,
     <<126629, 126633, 110>>, <<126635, 126651, 110>>,
     <<127232, 127244, 110>>, <<130032, 130041, 130>>,
     <<131072, 173782, 110>>, <<173783, 173789, 130>>,
     <<173790, 173791, 140>>, <<173824, 177972, 110>>,
     <<177973, 177976, 140>>, <<177977, 177977, 150>>,
     <<177984, 178205, 110>>, <<178208, 183969, 110>>,
     <<183984, 191456, 110>>, <<191472, 192093, 151>>,
     <<194560, 195101, 110>>, <<196608, 201546, 130>>,
     <<201552, 205743, 150>>}

IsAsciiWord(c) ==
    \/ c = 95
    \/ 48 <= c /\ c <= 57
    \/ 65 <= c /\ c <= 90
    \/ 97 <= c /\ c <= 122

IsWord(py, c) ==
    IF c < 128 THEN IsAsciiWord(c)
    ELSE \E r \in WordRanges : r[3] <= UnicodeOf(py) /\ r[1] <= c /\ c <= r[2]

\* int(d) raises ValueError when d has more digits than the limit allows
\* (leading zeros count); limit 0 is no limit, as on interpreters without
\* the limit.
IntRaises(limit, d) == limit > 0 /\ Len(d) > limit

\* int(d) for a string matched by \d+: the value, as its decimal numeral
\* (digit values, most significant first, no leading zero, <<0>> for 0).
ParseInt(py, d) ==
    LET q    == [k \in 1..Len(d) |-> DigitValue(py, d[k])]
        lead == Cardinality({k \in 1..Len(q) : \A m \in 1..k : q[m] = 0})
    IN  IF lead = Len(q) THEN <<0>> ELSE SubSeq(q, lead + 1, Len(q))

\* the limits of int(): the default (sys.int_info.default_max_str_digits),
\* or as set before the program starts (PYTHONINTMAXSTRDIGITS): switched
\* off (0, also a release from before the limit), or the least limit the
\* interpreter accepts (sys.int_info.str_digits_check_threshold).
MaxStrDigits == {0, 640, 4300}

\* min(...) of line 92 takes a level of the recursion limit of its own on
\* CPython 3.7 to 3.11, and none from 3.12 on.
MinNests(py) == py \in {"3.7", "3.8", "3.9", "3.10", "3.11"}

----------------------------------------------------------------------------
(* Python dicts                                                            *)

EmptyDict == [keys |-> <<>>, val |-> <<>>]

Has(d, k) == k \in Range(d.keys)

\* d[k] = v: a new key goes last, an old key keeps its place.
Put(d, k, v) ==
    IF Has(d, k)
    THEN [d EXCEPT !.val = [x \in DOMAIN d.val |-> IF x = k THEN v ELSE d.val[x]]]
    ELSE [keys |-> Append(d.keys, k),
          val  |-> [x \in DOMAIN d.val \cup {k} |-> IF x = k THEN v ELSE d.val[x]]]

\* d.setdefault(k, v)
SetDefault(d, k, v) == IF Has(d, k) THEN d ELSE Put(d, k, v)

\* d.get(k): <<>> is None, <<x>> is the value x.
Get(d, k) == IF Has(d, k) THEN <<d.val[k]>> ELSE <<>>

\* d.get(k, [])
GetList(d, k) == IF Has(d, k) THEN d.val[k] ELSE <<>>

----------------------------------------------------------------------------
(* Lines of the file.  A line is given by what the tests of the two        *)
(* readers see of it; one line can pass several of them:                   *)
(*   blank   the stripped line is empty (line 35)                          *)
(*   hash    the stripped line starts with "#" (line 35)                   *)
(*   header  STMT_INFO_HEADER.match matches the stripped line (line 32)    *)
(*   info    <<>>, or <<the texts>> s, d, it of a stripped line that       *)
(*           starts with   s [depth = d, iterators = "it"]                 *)
(*   edge    <<>>, or <<the texts>> ss, sr, ts, tr, v of a line that ends  *)
(*           with   ss -> ts (ref sr->tr, var v->v)   and has no other ->  *)
(* s, ss and ts are "S" and characters that are decimal digits on some     *)
(* interpreter, d, sr and tr are such digits, v is of characters that are  *)
(* word characters on some interpreter, it has no double quote.  Whether   *)
(* the patterns match such a line, and what their groups capture of the    *)
(* texts, depends on the interpreter's tables: InfoMatch, EdgeMatch and    *)
(* EdgeGroups.                                                             *)

OtherLine == [blank |-> FALSE, hash |-> FALSE, header |-> FALSE,
              info |-> <<>>, edge |-> <<>>]

BlankLine == [OtherLine EXCEPT !.blank = TRUE]

CommentLine == [OtherLine EXCEPT !.hash = TRUE]

HeaderLine == [OtherLine EXCEPT !.hash = TRUE, !.header = TRUE]

InfoLine(s, d, it) ==
    [OtherLine EXCEPT !.info = <<[stmt |-> s, depth |-> d, iters |-> it]>>]

EdgeLine(ss, sr, ts, tr, v) ==
    [OtherLine EXCEPT !.edge = <<[src_stmt |-> ss, src_ref |-> sr,
                                  tgt_stmt |-> ts, tgt_ref |-> tr, var |-> v]>>]

\* the line followed by the text of an edge line: "# S1 -> S2 (...)".
WithEdge(line, e) == [line EXCEPT !.edge = e.edge]

\* line 37: STMT_INFO_PATTERN.match(line)
InfoMatch(py, line) ==
    /\ line.info # <<>>
    /\ IsStatement(py, line.info[1].stmt)
    /\ AllDigits(py, line.info[1].depth)

\* var\s*(\w+)->\w+ on "var v->v": where in v the group can start.  It
\* runs to the end of v, since -> follows it, and starts where the word
\* "var" ends: at the start of v, or after the letters v, a, r inside v
\* when what comes before them is passed over by the .*? of line 20.
VarStarts(py, v) ==
    {j \in 1..Len(v) :
        /\ j = 1 \/ (j > 3 /\ SubSeq(v, j - 3, j - 1) = <<118, 97, 114>>)
        /\ \A m \in j..Len(v) : IsWord(py, v[m])}

\* line 49: EDGE_PATTERN.search(line).  The source statement is followed
\* by \s*-> and the source reference by ->, so all of the text has to be
\* digits; the target statement and the target reference are followed by
\* .*?, which passes over what \d+ does not take; the \w+ after the last
\* -> needs a word character at the start of v.
EdgeMatch(py, line) ==
    /\ line.edge # <<>>
    /\ IsStatement(py, line.edge[1].src_stmt)
    /\ Len(line.edge[1].tgt_stmt) > 1
    /\ line.edge[1].tgt_stmt[1] = 83
    /\ IsDigit(py, line.edge[1].tgt_stmt[2])
    /\ AllDigits(py, line.edge[1].src_ref)
    /\ Len(line.edge[1].tgt_ref) > 0
    /\ IsDigit(py, line.edge[1].tgt_ref[1])
    /\ Len(line.edge[1].var) > 0
    /\ IsWord(py, line.edge[1].var[1])
    /\ VarStarts(py, line.edge[1].var) # {}

\* line 54: m.groups() of a line that matches.  .*? is lazy: the group of
\* the variable starts at the first place it can.
EdgeGroups(py, line) ==
    LET e      == line.edge[1]
        starts == VarStarts(py, e.var)
        first  == CHOOSE j \in starts : \A k \in starts : j <= k
    IN  [src_stmt |-> e.src_stmt,
         tgt_stmt |-> <<83>> \o DigitPrefix(py, Tail(e.tgt_stmt)),
         src_ref  |-> e.src_ref,
         tgt_ref  |-> DigitPrefix(py, e.tgt_ref),
         var      |-> SubSeq(e.var, first, Len(e.var))]

----------------------------------------------------------------------------
(* build_var_graphs                                                        *)

\* f"{stmt}_r{ref}_{var}"   ("_" is 95, "r" is 114)
NodeKey(stmt, ref, var) == stmt \o <<95, 114>> \o ref \o <<95>> \o var

\* lines 65-66: the successor is appended unless it is already there.
AddSuccessorAlways(succs, tgt) == Append(succs, tgt)

AddSuccessor(succs, tgt) ==
    IF tgt \notin Range(succs) THEN Append(succs, tgt) ELSE succs

\* lines 54-66: one matching line, m its groups.
AddEdge(graphs, m) ==
    LET var == m.var
        src == NodeKey(m.src_stmt, m.src_ref, var)
        tgt == NodeKey(m.tgt_stmt, m.tgt_ref, var)
        gs1 == SetDefault(graphs, var, EmptyDict)
        g1  == SetDefault(gs1.val[var], src, <<>>)
        g2  == SetDefault(g1, tgt, <<>>)
        g3  == Put(g2, src, AddSuccessor(g2.val[src], tgt))
    IN  Put(gs1, var, g3)

\* lines 48-66: the loop over the lines, from line k on.
RECURSIVE BuildFrom(_, _, _, _)
BuildFrom(py, lines, k, graphs) ==
    IF k > Len(lines) THEN graphs
    ELSE IF ~EdgeMatch(py, lines[k]) THEN BuildFrom(py, lines, k + 1, graphs)
    ELSE BuildFrom(py, lines, k + 1, AddEdge(graphs, EdgeGroups(py, lines[k])))

build_var_graphs(py, lines) == BuildFrom(py, lines, 1, EmptyDict)

----------------------------------------------------------------------------
(* parse_statement_info                                                    *)

\* line 41: [it.strip() for it in iters.split(',')] if iters else []
StripAll(parts) == [k \in 1..Len(parts) |-> Strip(parts[k])]

ParseIters(iters) == IF Len(iters) = 0 THEN <<>> ELSE StripAll(Split(iters, 44))

\* line 35: not line or line.startswith("#")
EndsBlockBlankOnly(line) == line.blank

EndsBlock(line) == line.blank \/ line.hash

\* lines 29-41: the loop over the lines, from line k on; st is
\* [raised, in_block, depth, iters].  int() of line 40 may raise
\* ValueError, which ends the loop and the function.
RECURSIVE ParseFrom(_, _, _, _, _)
ParseFrom(py, limit, lines, k, st) ==
    IF k > Len(lines) THEN st
    ELSE LET line == lines[k] IN
         IF ~st.in_block
         THEN ParseFrom(py, limit, lines, k + 1,
                        [st EXCEPT !.in_block = line.header])
         ELSE IF EndsBlock(line) THEN st
         ELSE IF InfoMatch(py, line)
         THEN LET m == line.info[1] IN
              IF IntRaises(limit, m.depth) THEN [st EXCEPT !.raised = TRUE]
              ELSE ParseFrom(py, limit, lines, k + 1,
                       [st EXCEPT !.depth = Put(st.depth, m.stmt, ParseInt(py, m.depth)),
                                  !.iters = Put(st.iters, m.stmt, ParseIters(m.iters))])
         ELSE ParseFrom(py, limit, lines, k + 1, st)

\* lines 23-42: returns (stmt_depth, stmt_iters), or raises (raised, and
\* no value).
parse_statement_info(py, limit, lines) ==
    LET r == ParseFrom(py, limit, lines, 1,
                 [raised |-> FALSE, in_block |-> FALSE,
                  depth |-> EmptyDict, iters |-> EmptyDict])
    IN  IF r.raised
        THEN [raised |-> TRUE, in_block |-> r.in_block,
              depth |-> EmptyDict, iters |-> EmptyDict]
        ELSE r

----------------------------------------------------------------------------
(* tarjans_scc.  st is the state the nested function dfs shares with       *)
(* tarjans_scc: index, stack, on_stack, indices, lowlink, sccs.  calls and *)
(* max_calls count the dfs calls that are active (entered, not returned);  *)
(* limit is the number of nested dfs calls the interpreter still allows    *)
(* (sys.getrecursionlimit() less the frames in use when tarjans_scc is     *)
(* called); min_nests says whether min() of line 92 takes a level of its   *)
(* own; raised says that a call of dfs raised RecursionError, which        *)
(* nothing catches.                                                        *)

TarjanInit(py, limit) ==
    [index |-> 0, stack |-> <<>>, on_stack |-> {}, indices |-> <<>>,
     lowlink |-> <<>>, sccs |-> <<>>, calls |-> 0, max_calls |-> 0,
     limit |-> limit, min_nests |-> MinNests(py), raised |-> FALSE]

\* lines 81-85, on entry of dfs(v).
Visit(st, v) ==
    [st EXCEPT !.indices   = (v :> st.index) @@ st.indices,
               !.lowlink   = (v :> st.index) @@ st.lowlink,
               !.index     = st.index + 1,
               !.stack     = Append(st.stack, v),
               !.on_stack  = st.on_stack \cup {v},
               !.calls     = st.calls + 1,
               !.max_calls = MaxOf(st.max_calls, st.calls + 1)]

\* line 90, after dfs(w) returned.
AfterChild(st, v, w) ==
    [st EXCEPT !.lowlink[v] = MinOf(st.lowlink[v], st.lowlink[w])]

\* dfs returns.
Return(st) == [st EXCEPT !.calls = st.calls - 1]

\* lines 89, 92, 106: RecursionError.  A call of dfs with the allowed
\* nesting used up raises (lines 89, 106).  On the interpreters that count
\* the call of min() and its comparison as levels (MinNests), min(...) of
\* line 92 raises in the last allowed frame: it nests one level deeper
\* than the frame's other statements.
Raise(st) == [st EXCEPT !.raised = TRUE]

\* lines 91-92: a visited successor counts only while it is on the stack.
BackEdge(st, v, w) ==
    IF w \in st.on_stack
    THEN IF st.min_nests /\ st.calls >= st.limit THEN Raise(st)
         ELSE [st EXCEPT !.lowlink[v] = MinOf(st.lowlink[v], st.indices[w])]
    ELSE st

\* line 94
IsRoot(st, v) == st.lowlink[v] = st.indices[v]

\* lines 95-102: pop the stack down to and including v; comp is in pop order.
PopComponent(st, v) ==
    LET p    == CHOOSE k \in 1..Len(st.stack) :
                    st.stack[k] = v /\ \A m \in (k + 1)..Len(st.stack) : st.stack[m] # v
        n    == Len(st.stack)
        comp == [k \in 1..(n - p + 1) |-> st.stack[n + 1 - k]]
    IN  [st EXCEPT !.stack    = SubSeq(st.stack, 1, p - 1),
                   !.on_stack = st.on_stack \ Range(comp),
                   !.sccs     = Append(st.sccs, comp)]

RECURSIVE dfs(_, _, _), DfsSuccessors(_, _, _, _)

\* lines 87-92: the loop over graph[v], from successor k on; an exception
\* of line 89 or of line 92 ends it.
DfsSuccessors(graph, v, k, st) ==
    IF k > Len(graph.val[v]) THEN st
    ELSE LET w == graph.val[v][k] IN
         IF w \notin DOMAIN st.indices
         THEN LET s1 == dfs(graph, w, st)
              IN  IF s1.raised THEN s1
                  ELSE DfsSuccessors(graph, v, k + 1, AfterChild(s1, v, w))
         ELSE LET s2 == BackEdge(st, v, w)
              IN  IF s2.raised THEN s2
                  ELSE DfsSuccessors(graph, v, k + 1, s2)

\* lines 79-102
dfs(graph, v, st) ==
    IF st.calls >= st.limit THEN Raise(st)
    ELSE LET s1 == DfsSuccessors(graph, v, 1, Visit(st, v))
         IN  IF s1.raised THEN s1
             ELSE IF IsRoot(s1, v) THEN Return(PopComponent(s1, v))
             ELSE Return(s1)

\* lines 104-106: the loop over the keys, in insertion order, from key k on.
RECURSIVE TarjanFrom(_, _, _)
TarjanFrom(graph, k, st) ==
    IF st.raised \/ k > Len(graph.keys) THEN st
    ELSE IF graph.keys[k] \in DOMAIN st.indices THEN TarjanFrom(graph, k + 1, st)
    ELSE TarjanFrom(graph, k + 1, dfs(graph, graph.keys[k], st))

\* lines 71-107; TarjanRun keeps the whole final state.  tarjans_scc
\* returns sccs, or raises (raised, and no value).
TarjanRun(py, graph, limit) == TarjanFrom(graph, 1, TarjanInit(py, limit))

tarjans_scc(py, graph, limit) ==
    LET r == TarjanRun(py, graph, limit)
    IN  [raised |-> r.raised, sccs |-> IF r.raised THEN <<>> ELSE r.sccs]

----------------------------------------------------------------------------
(* build_cycle_matrix.  A cell of the object matrix holds the object that  *)
(* was assigned, an int or a str: IntCell(n) is the int n, StrCell(s) the  *)
(* str s.                                                                  *)

IntCell(n) == n

StrCell(s) == s

\* line 137: the value of the diagonal and of equal-depth pairs.
NOT_APPLICABLE == IntCell(-1)

\* line 130: '-'
NO_COMMON_ITERATOR == StrCell(<<45>>)

\* line 119: np.full((n, n), fill_value=0, dtype=object)
FillValue == IntCell(0)

\* line 116: the components kept by [c for c in tarjans_scc(graph) if len(c) > 1]
IsKept(c) == Len(c) > 1

CyclicComponents(sccs) == SelectSeq(sccs, IsKept)

\* u.split('_')[0]
Statement(u) == Split(u, 95)[1]

\* line 117: nodes = sorted(graph.keys())
SortedNodes(graph) == Sorted(Range(graph.keys))

\* lines 127-129: sorted(iters_u & iters_v)
CommonUnion(iters, u, v) ==
    Sorted(Range(GetList(iters, Statement(u))) \cup Range(GetList(iters, Statement(v))))

Common(iters, u, v) ==
    Sorted(Range(GetList(iters, Statement(u))) \cap Range(GetList(iters, Statement(v))))

\* line 130: ','.join(common) if common else '-'
CommonCell(common) ==
    IF Len(common) > 0 THEN StrCell(Join(common, <<44>>)) ELSE NO_COMMON_ITERATOR

\* lines 121-130: every ordered pair of distinct nodes of one kept component
\* gets its common-iterator cell; the value written depends on the pair only.
ComponentPass(M, kept, nodes, iters) ==
    [i \in 1..Len(nodes) |-> [j \in 1..Len(nodes) |->
        IF /\ nodes[i] # nodes[j]
           /\ \E c \in 1..Len(kept) :
                  nodes[i] \in Range(kept[c]) /\ nodes[j] \in Range(kept[c])
        THEN CommonCell(Common(iters, nodes[i], nodes[j]))
        ELSE M[i][j]]]

\* line 136: i == j or stmt_depth.get(u_stmt) == stmt_depth.get(v_stmt)
SuppressedDiagonalOnly(depth, nodes, i, j) == i = j

Suppressed(depth, nodes, i, j) ==
    \/ i = j
    \/ Get(depth, Statement(nodes[i])) = Get(depth, Statement(nodes[j]))

\* lines 132-137
SuppressPass(M, nodes, depth) ==
    [i \in 1..Len(nodes) |-> [j \in 1..Len(nodes) |->
        IF Suppressed(depth, nodes, i, j) THEN NOT_APPLICABLE ELSE M[i][j]]]

\* lines 110-140: returns (M, nodes), or raises with tarjans_scc.
build_cycle_matrix(py, graph, depth, iters, limit) ==
    LET t     == tarjans_scc(py, graph, limit)
        kept  == CyclicComponents(t.sccs)
        nodes == SortedNodes(graph)
        M0    == [i \in 1..Len(nodes) |-> [j \in 1..Len(nodes) |-> FillValue]]
        M1    == ComponentPass(M0, kept, nodes, iters)
    IN  IF t.raised THEN [raised |-> TRUE, M |-> <<>>, nodes |-> <<>>]
        ELSE [raised |-> FALSE, M |-> SuppressPass(M1, nodes, depth), nodes |-> nodes]

----------------------------------------------------------------------------
(* The input files.                                                        *)

S1 == <<83, 49>>

S2 == <<83, 50>>

S10 == <<83, 49, 48>>

VarA == <<97>>

VarB == <<98>>

Ref0 == <<48>>

Ref1 == <<49>>

SeqsUpTo(S, n) == UNION {[1..k -> S] : k \in 0..n}

\* Bounds on the number of lines drawn.
MaxEdgeLines == 3

MaxInfoLines == 2

MaxVarLines == 3

\* One variable, three statements ("S10_r0_a" sorts before "S1_r0_a"), and
\* one self-edge.
Stmts == {S1, S2, S10}

EdgeLinesA ==
    {EdgeLine(ss, Ref0, ts, Ref0, VarA) : ss \in Stmts, ts \in Stmts}
        \ {EdgeLine(S2, Ref0, S2, Ref0, VarA), EdgeLine(S10, Ref0, S10, Ref0, VarA),
           EdgeLine(S10, Ref0, S2, Ref0, VarA)}

\* What the metadata block says of one statement: nothing (<<>>), or its
\* depth and iterators.
InfoK == <<<<49>>, <<107>>>>                            \* depth = 1,  "k"

InfoJ == <<<<50>>, <<106, 44, 32, 105>>>>               \* depth = 2,  "j, i"

InfoT == <<<<48, 51>>, <<105, 44, 107, 44, 106>>>>      \* depth = 03, "i,k,j"

OptLine(s, o) == IF o = <<>> THEN <<>> ELSE <<InfoLine(s, o[1], o[2])>>

MetaBlocks ==
    {<<HeaderLine>> \o OptLine(S1, o1) \o OptLine(S2, o2) \o OptLine(S10, o3)
        \o <<BlankLine>> :
        o1 \in {<<>>, InfoK}, o2 \in {<<>>, InfoJ}, o3 \in {InfoJ, InfoT}}

\* A well-formed file: a metadata block, then the edges of one variable.
MatrixFiles == {m \o e : m \in MetaBlocks, e \in SeqsUpTo(EdgeLinesA, MaxEdgeLines)}

\* The digits 2 of Tangsa (a digit from Unicode 14.0 on) and Kawi (from
\* 15.0 on), and a depth of 641 digits, which int() converts under its
\* default limit and refuses under the least limit.
Tangsa2 == <<92866>>

Kawi2 == <<73554>>

LongDepth == [k \in 1..641 |-> 49]

\* the line "# S1 -> S2 (ref 0->0, var a->a)": a comment for one reader, an
\* edge for the other.
CommentedEdge == WithEdge(CommentLine, EdgeLine(S1, Ref0, S2, Ref0, VarA))

\* The metadata reader's lines: a header, the two block ends, a line that
\* is no metadata (an edge), metadata of S1, metadata followed by an edge
\* on one line with a depth only 3.11 and later read, metadata only 3.12
\* and later read, and metadata with the long depth.
InfoAlphabet ==
    {HeaderLine, BlankLine, CommentedEdge, EdgeLine(S1, Ref0, S2, Ref0, VarA),
     InfoLine(S1, <<49>>, <<105, 44, 32, 106>>),
     WithEdge(InfoLine(S2, Tangsa2, <<105>>), EdgeLine(S2, Ref0, S1, Ref0, VarA)),
     InfoLine(S10, Kawi2, <<>>),
     InfoLine(S2, LongDepth, <<106>>)}

\* A file starts with the header and a line that is no metadata, or with
\* metadata that no header precedes, and ends with one more metadata line
\* of S1, with another depth and no iterators.
InfoFiles ==
    {pre \o m \o <<InfoLine(S1, <<50>>, <<>>)>> :
        pre \in {<<HeaderLine, EdgeLine(S2, Ref0, S1, Ref0, VarA)>>,
                 <<InfoLine(S10, <<55>>, <<107>>)>>},
        m \in SeqsUpTo(InfoAlphabet, MaxInfoLines)}

\* A letter of Kawi (a word character from Unicode 15.0 on), and a variable
\* that holds it before the letters "var": a<Kawi>varb.
KawiA == <<73476>>

VarKawi == <<97>> \o KawiA \o <<118, 97, 114, 98>>

\* Edge lines of two variables over the same statements and references
\* (S2_r1 is a target only); an edge inside a comment; lines with the Kawi
\* digit, which only 3.12 and later read as a digit: in the source
\* statement, in the source reference, and after the first digit of the
\* target statement and of the target reference; an edge of the variable
\* with the Kawi letter; and a line that is no edge.  Every file ends with
\* the line that has the Kawi digit in the source reference.
EdgeLinesAB ==
    {EdgeLine(S1, Ref0, S2, Ref1, v) : v \in {VarA, VarB}}
        \cup {EdgeLine(S2, Ref0, S1, Ref0, VarA)}

VarAlphabet ==
    EdgeLinesAB \cup
    {WithEdge(CommentLine, EdgeLine(S2, Ref0, S2, Ref1, VarB)),
     EdgeLine(<<83>> \o Kawi2, Ref0, S1, Ref0, VarA),
     EdgeLine(S2, Ref0, S1 \o Kawi2, Ref0 \o Kawi2, VarA),
     EdgeLine(S2, Ref0, S1, Ref0, VarKawi),
     OtherLine}

VarFiles ==
    {m \o <<EdgeLine(S1, Ref0 \o Kawi2, S1, Ref0, VarA)>> :
        m \in SeqsUpTo(VarAlphabet, MaxVarLines)}

\* The nesting of dfs calls the interpreter allows.  CPython allows about
\* a thousand and the graphs drawn here have three nodes: 4 stands for a
\* limit no graph at hand reaches, 2 for one that a chain of three nodes
\* exceeds, as a chain of more than a thousand nodes exceeds the default.
Frames == {2, 4}

----------------------------------------------------------------------------
(* main(): lines 156-177                                                   *)

Start(files, pythons, limits, frs) ==
    /\ file \in files
    /\ pc = "tools"
    /\ exception = "None"
    /\ var_graphs = EmptyDict
    /\ stmt_depth = EmptyDict
    /\ stmt_iters = EmptyDict
    /\ vi = 0
    /\ out = <<>>
    /\ python \in pythons
    /\ max_str_digits \in MaxStrDigits \cap limits
    /\ frames \in frs

\* The matrix files hold short depths in ASCII digits, which every
\* interpreter reads alike: one interpreter of each kind of MinNests runs
\* them, under both recursion limits.
Init == Start(MatrixFiles, {"3.11", "3.12"}, {4300}, Frames)

\* The files of the metadata reader have graphs of two nodes, which no
\* recursion limit cuts short; the interpreters differ in their digits and
\* in the limit of int().
InitInfo == Start(InfoFiles, {"3.10", "3.11", "3.12"}, {0, 640, 4300}, {4})

\* The files of the edge reader have no metadata; the interpreters differ
\* in their digits and letters.
InitVars == Start(VarFiles, {"3.11", "3.12"}, {4300}, {4})

\* lines 157-165: the source file is looked up and Clan and Candl are
\* run.  main ends by sys.exit(1) when the source file is missing (line
\* 159), a tool is not found (line 150) or returns a non-zero status (line
\* 153).  Not caught by run_command, and ending main: another OSError of
\* subprocess.run (a tool that may not be executed), the UnicodeDecodeError
\* (a ValueError) of subprocess.run with text=True for output of a tool
\* that does not decode, and the ValueError of with_suffix for a source
\* path without a name (line 161).  Else Candl has run.
RunTools ==
    /\ pc = "tools" /\ exception = "None"
    /\ \/ pc' = "graphs" /\ exception' = exception
       \/ pc' = pc /\ exception' \in {"SystemExit", "OSError", "ValueError"}
    /\ UNCHANGED <<file, var_graphs, stmt_depth, stmt_iters, vi, out,
                   python, max_str_digits, frames>>

\* line 167.  file is what the lines of Candl's file are when it is there
\* and decodes; else build_var_graphs raises: the OSError of file.open()
\* (line 47, Candl returned 0 and wrote no file) or the UnicodeDecodeError
\* of reading a line (line 48).
BuildVarGraphs ==
    /\ pc = "graphs" /\ exception = "None"
    /\ \/ /\ var_graphs' = build_var_graphs(python, file)
          /\ pc' = "info"
          /\ exception' = exception
       \/ /\ exception' \in {"OSError", "ValueError"}
          /\ UNCHANGED <<pc, var_graphs>>
    /\ UNCHANGED <<file, stmt_depth, stmt_iters, vi, out,
                   python, max_str_digits, frames>>

\* line 168: the file just read is read again.  When parse_statement_info
\* raises, main ends with the exception.
ParseStatementInfo ==
    /\ pc = "info" /\ exception = "None"
    /\ LET r == parse_statement_info(python, max_str_digits, file)
       IN  IF r.raised
           THEN /\ exception' = "ValueError"
                /\ UNCHANGED <<pc, stmt_depth, stmt_iters>>
           ELSE /\ stmt_depth' = r.depth
                /\ stmt_iters' = r.iters
                /\ pc' = "matrix"
                /\ exception' = exception
    /\ UNCHANGED <<file, var_graphs, vi, out, python, max_str_digits, frames>>

\* lines 170-177: one round of the loop over var_graphs.items().  Beside
\* (M, nodes) the record keeps what tarjans_scc returned, the components
\* build_cycle_matrix kept, and the deepest nesting of dfs calls.  When
\* build_cycle_matrix raises, main ends with the exception; so it does
\* when a print of lines 172-177 raises: an OSError (standard output is
\* closed) or a UnicodeEncodeError (a ValueError: a name that the encoding
\* of standard output does not have).
BuildCycleMatrix ==
    /\ pc = "matrix" /\ exception = "None"
    /\ vi < Len(var_graphs.keys)
    /\ LET var   == var_graphs.keys[vi + 1]
           graph == var_graphs.val[var]
           r     == build_cycle_matrix(python, graph, stmt_depth, stmt_iters, frames)
           run   == TarjanRun(python, graph, frames)
       IN  IF r.raised
           THEN exception' = "RecursionError" /\ UNCHANGED <<vi, out>>
           ELSE /\ out' = Append(out, [var |-> var, graph |-> graph, M |-> r.M,
                                       nodes |-> r.nodes, sccs |-> run.sccs,
                                       kept |-> CyclicComponents(run.sccs),
                                       max_calls |-> run.max_calls])
                /\ \/ vi' = vi + 1 /\ exception' = exception
                   \/ vi' = vi /\ exception' \in {"OSError", "ValueError"}
    /\ UNCHANGED <<file, pc, var_graphs, stmt_depth, stmt_iters,
                   python, max_str_digits, frames>>

\* the loop of line 170 is over: main returns.
Finish ==
    /\ pc = "matrix" /\ exception = "None"
    /\ vi = Len(var_graphs.keys)
    /\ pc' = "done"
    /\ UNCHANGED <<file, exception, var_graphs, stmt_depth, stmt_iters, vi, out,
                   python, max_str_digits, frames>>

Next == RunTools \/ BuildVarGraphs \/ ParseStatementInfo \/ BuildCycleMatrix \/ Finish

Spec == Init /\ [][Next]_vars

SpecInfo == InitInfo /\ [][Next]_vars

SpecVars == InitVars /\ [][Next]_vars

----------------------------------------------------------------------------
(* Notions the claims are stated in, defined apart from the operators      *)
(* above: edges and reachability of a graph, the statement of a node, the  *)
(* metadata of a statement.                                                *)

Keys(graph) == Range(graph.keys)

Succ(graph, u) == Range(graph.val[u])

RECURSIVE ReachFrom(_, _)
ReachFrom(graph, S) ==
    LET T == S \cup UNION {Succ(graph, u) : u \in S}
    IN  IF T = S THEN S ELSE ReachFrom(graph, T)

\* v is reachable from u and u from v (a node reaches itself).
Mutual(graph, u, v) == v \in ReachFrom(graph, {u}) /\ u \in ReachFrom(graph, {v})

Acyclic(graph) ==
    \A u \in Keys(graph) :
        /\ u \notin Succ(graph, u)
        /\ \A v \in Keys(graph) \ {u} : ~Mutual(graph, u, v)

\* the nodes are the keys u(1), ..., u(n) and the edges are u(k) -> u(k+1).
IsChain(graph) ==
    /\ Len(graph.keys) >= 2
    /\ \A k \in 1..Len(graph.keys) :
          graph.val[graph.keys[k]] =
              IF k < Len(graph.keys) THEN <<graph.keys[k + 1]>> ELSE <<>>

StmtOf(u) ==
    LET p == CHOOSE k \in 1..Len(u) : u[k] = 95 /\ \A m \in 1..(k - 1) : u[m] # 95
    IN  SubSeq(u, 1, p - 1)

Known(u) == StmtOf(u) \in Range(stmt_depth.keys)

DepthOf(u) == stmt_depth.val[StmtOf(u)]

EqualDepth(u, v) ==
    \/ ~Known(u) /\ ~Known(v)
    \/ Known(u) /\ Known(v) /\ DepthOf(u) = DepthOf(v)

ItersOf(u) ==
    IF StmtOf(u) \in Range(stmt_iters.keys)
    THEN Range(stmt_iters.val[StmtOf(u)]) ELSE {}

StrictlySorted(q) == \A k \in 1..(Len(q) - 1) : StrLess(q[k], q[k + 1])

SameComponent(sccs, u, v) ==
    \E c \in 1..Len(sccs) : u \in Range(sccs[c]) /\ v \in Range(sccs[c])

Outs == 1..Len(out)

Idx(o) == 1..Len(o.nodes)

\* A cell is an int or a str, which TLC tells apart by how it writes them.
\* The ints a cell can hold are -1 and 0.
IsInt(c) == ToString(c) \in {ToString(-1), ToString(0)}

IsNotApplicable(c) == IsInt(c) /\ c = -1

IsStr(c) == ~IsInt(c)

IsDash(c) == IsStr(c) /\ c = <<45>>

SameCell(c, d) == ToString(c) = ToString(d)

SameMatrix(A, B) ==
    /\ Len(A) = Len(B)
    /\ \A i \in 1..Len(A) :
          Len(A[i]) = Len(B[i]) /\ \A j \in 1..Len(A[i]) : SameCell(A[i][j], B[i][j])

\* the graph whose build_cycle_matrix call ended main with RecursionError.
RaisedGraph == var_graphs.val[var_graphs.keys[vi + 1]]

RecursionError == exception = "RecursionError"

----------------------------------------------------------------------------
(* What tarjans_scc returned is a partition of the graph's keys into       *)
(* non-empty components, and two nodes are in one component iff each is    *)
(* reachable from the other.                                               *)
ReturnedSccsArePartition ==
    \A k \in Outs :
        LET o == out[k] IN
        /\ \A c \in 1..Len(o.sccs) :
              Len(o.sccs[c]) > 0 /\ Range(o.sccs[c]) \subseteq Keys(o.graph)
        /\ \A u \in Keys(o.graph) :
              Cardinality({c \in 1..Len(o.sccs) : u \in Range(o.sccs[c])}) = 1
        /\ \A c \in 1..Len(o.sccs) :
              Cardinality(Range(o.sccs[c])) = Len(o.sccs[c])
        /\ \A u \in Keys(o.graph) : \A v \in Keys(o.graph) :
              SameComponent(o.sccs, u, v) <=> Mutual(o.graph, u, v)

(* C1: for every graph tarjans_scc returns a list of components, it is a   *)
(* partition of the graph's keys into non-empty components, and two nodes  *)
(* are in one component iff each is reachable from the other.              *)
C1_SccPartition == ~RecursionError /\ ReturnedSccsArePartition

----------------------------------------------------------------------------
(* C2: once build_var_graphs has read the file, the graph of each variable *)
(* V is the edge relation of the V-lines: the variables are those of the   *)
(* edge lines, the keys of V's graph are the sources and targets of the    *)
(* V-lines, and u's successor list holds v once if a V-line goes from u to *)
(* v and not at all otherwise.  An edge line is a line EDGE_PATTERN finds  *)
(* an edge in; its statements, references and variable are what the        *)
(* pattern captures.                                                       *)
EdgeIdx == {k \in 1..Len(file) : EdgeMatch(python, file[k])}

\* the line is cut short: a group holds less than the text at its place.
CutShort(line) ==
    LET m == EdgeGroups(python, line)
    IN  m.tgt_stmt # line.edge[1].tgt_stmt \/ m.tgt_ref # line.edge[1].tgt_ref
            \/ m.var # line.edge[1].var

Occurrences(q, x) == Cardinality({k \in 1..Len(q) : q[k] = x})

\* the edges the file holds: variable, source node, target node.
EdgeOf(m) ==
    [var |-> m.var,
     src |-> m.src_stmt \o <<95, 114>> \o m.src_ref \o <<95>> \o m.var,
     tgt |-> m.tgt_stmt \o <<95, 114>> \o m.tgt_ref \o <<95>> \o m.var]

EdgesRead == {EdgeOf(EdgeGroups(python, file[k])) : k \in EdgeIdx}

C2_GraphIsEdgeRelation ==
    pc \in {"info", "matrix", "done"} =>
        \A E \in {EdgesRead} :
        /\ Range(var_graphs.keys) = {e.var : e \in E}
        /\ Cardinality(Range(var_graphs.keys)) = Len(var_graphs.keys)
        /\ \A V \in Range(var_graphs.keys) :
              LET g == var_graphs.val[V]
              IN  /\ Keys(g) = {e.src : e \in {x \in E : x.var = V}}
                                  \cup {e.tgt : e \in {x \in E : x.var = V}}
                  /\ Cardinality(Keys(g)) = Len(g.keys)
                  /\ DOMAIN g.val = Keys(g)
                  /\ \A u \in Keys(g) : \A v \in Keys(g) \cup Range(g.val[u]) :
                        Occurrences(g.val[u], v) =
                            IF [var |-> V, src |-> u, tgt |-> v] \in E THEN 1 ELSE 0

\* two variables, an edge line read twice, an edge read from a comment
\* line, an edge whose target is cut short, a line with the text of an edge
\* in which the pattern finds none, and a node without successors.
C2_Witness ==
    /\ pc = "done"
    /\ Len(var_graphs.keys) = 2
    /\ \E k \in EdgeIdx : CutShort(file[k])
    /\ \E k \in 1..Len(file) : file[k].edge # <<>> /\ k \notin EdgeIdx
    /\ \E j \in EdgeIdx : \E k \in EdgeIdx : j # k /\ file[j] = file[k]
    /\ \E k \in EdgeIdx : file[k].hash
    /\ \E V \in Range(var_graphs.keys) :
          \E u \in Keys(var_graphs.val[V]) : var_graphs.val[V].val[u] = <<>>

----------------------------------------------------------------------------
(* C3: for a graph without cycles tarjans_scc yields singleton components *)
(* only and every off-diagonal cell of the matrix is NOT_APPLICABLE, the   *)
(* value of the diagonal.                                                  *)
C3_AcyclicAllNotApplicable ==
    /\ RecursionError => ~Acyclic(RaisedGraph)
    /\ \A k \in Outs :
          LET o == out[k] IN
          Acyclic(o.graph) =>
              /\ \A c \in 1..Len(o.sccs) : Len(o.sccs[c]) = 1
              /\ \A i \in Idx(o) : \A j \in Idx(o) : IsNotApplicable(o.M[i][j])

----------------------------------------------------------------------------
(* C4: the cell of two nodes whose statements have equal depth, both       *)
(* absent from the metadata included, is NOT_APPLICABLE, also inside a     *)
(* cyclic component and with shared iterators; so is the diagonal.         *)
C4_EqualDepthNotApplicable ==
    \A k \in Outs :
        LET o == out[k] IN
        \A i \in Idx(o) : \A j \in Idx(o) :
            (i = j \/ EqualDepth(o.nodes[i], o.nodes[j])) => IsNotApplicable(o.M[i][j])

\* a cycle of three nodes, two of them of known equal depth with a shared
\* iterator, the third of another depth.
C4_Witness ==
    \E k \in Outs :
        LET o == out[k] IN
        \E c \in 1..Len(o.kept) :
            /\ Len(o.kept[c]) = 3
            /\ \E u \in Range(o.kept[c]) : \E v \in Range(o.kept[c]) :
                  /\ u # v /\ Known(u) /\ Known(v) /\ DepthOf(u) = DepthOf(v)
                  /\ ItersOf(u) \cap ItersOf(v) # {}
            /\ \E u \in Range(o.kept[c]) : \E v \in Range(o.kept[c]) :
                  ~EqualDepth(u, v)

----------------------------------------------------------------------------
(* C5: for two distinct nodes of one cyclic component whose statements     *)
(* have known, unequal depths, the cell is the sorted, comma-joined list   *)
(* of the iterator names both statements have, '-' if there is none, and   *)
(* Cell(u, v) = Cell(v, u).                                                *)
C5_CommonIterators ==
    \A k \in Outs :
        LET o == out[k] IN
        \A i \in Idx(o) : \A j \in Idx(o) :
            LET u == o.nodes[i]
                v == o.nodes[j]
                names == ItersOf(u) \cap ItersOf(v)
            IN  (/\ u # v
                 /\ Mutual(o.graph, u, v)
                 /\ Known(u) /\ Known(v) /\ DepthOf(u) # DepthOf(v))
                =>
                /\ IsStr(o.M[i][j])
                /\ IF names = {} THEN o.M[i][j] = <<45>>
                   ELSE /\ StrictlySorted(Split(o.M[i][j], 44))
                        /\ Range(Split(o.M[i][j], 44)) = names
                /\ SameCell(o.M[i][j], o.M[j][i])

\* a cycle with a pair sharing two iterators and a pair sharing none.
C5_Witness ==
    \E k \in Outs :
        LET o == out[k] IN
        /\ \E i \in Idx(o) : \E j \in Idx(o) :
              /\ i # j /\ Mutual(o.graph, o.nodes[i], o.nodes[j])
              /\ Known(o.nodes[i]) /\ Known(o.nodes[j])
              /\ DepthOf(o.nodes[i]) # DepthOf(o.nodes[j])
              /\ Cardinality(ItersOf(o.nodes[i]) \cap ItersOf(o.nodes[j])) = 2
              /\ IsStr(o.M[i][j]) /\ o.M[i][j] = <<105, 44, 106>>
        /\ \E i \in Idx(o) : \E j \in Idx(o) :
              /\ i # j /\ Mutual(o.graph, o.nodes[i], o.nodes[j])
              /\ Known(o.nodes[i]) /\ Known(o.nodes[j])
              /\ DepthOf(o.nodes[i]) # DepthOf(o.nodes[j])
              /\ ItersOf(o.nodes[i]) \cap ItersOf(o.nodes[j]) = {}
              /\ IsDash(o.M[i][j])

----------------------------------------------------------------------------
(* C6: the components build_cycle_matrix keeps as cyclic are those of      *)
(* tarjans_scc that have more than one node or whose single node has an    *)
(* edge to itself.                                                         *)
C6_SelfEdgeIsCyclic ==
    \A k \in Outs :
        LET o == out[k] IN
        \A c \in 1..Len(o.sccs) :
            (\E d \in 1..Len(o.kept) : o.kept[d] = o.sccs[c])
            <=> \/ Len(o.sccs[c]) > 1
                \/ Len(o.sccs[c]) = 1 /\ o.sccs[c][1] \in Succ(o.graph, o.sccs[c][1])

----------------------------------------------------------------------------
(* C7: parse_statement_info records a statement only from a line that     *)
(* matches the metadata grammar after the first header and before the      *)
(* first blank line or '#' line that follows it; the last such line of a   *)
(* statement gives its depth and iterators; a line inside the block that   *)
(* does not match is skipped: it neither ends the block nor makes the      *)
(* parse fail (the parse fails only at a matching line of the block, whose *)
(* depth int() refuses, and then records nothing).                         *)
Headers == {k \in 1..Len(file) : file[k].header}

FirstHeader == CHOOSE h \in Headers : \A g \in Headers : h <= g

Terminators ==
    {k \in 1..Len(file) : k > FirstHeader /\ (file[k].blank \/ file[k].hash)}

BlockEnd ==
    IF Terminators = {} THEN Len(file) + 1
    ELSE CHOOSE t \in Terminators : \A x \in Terminators : t <= x

BlockInfo ==
    IF Headers = {} THEN {}
    ELSE {k \in 1..Len(file) :
             FirstHeader < k /\ k < BlockEnd /\ InfoMatch(python, file[k])}

InfoOf(k) == file[k].info[1]

LastInfo(block, s) ==
    CHOOSE k \in block :
        InfoOf(k).stmt = s /\ \A m \in block : InfoOf(m).stmt = s => m <= k

Refused(block) == {k \in block : IntRaises(max_str_digits, InfoOf(k).depth)}

NotBlank(c) == c # 32

C7_BlockOnly ==
    LET block == BlockInfo IN
    /\ (pc = "info" /\ exception = "ValueError") =>
          Refused(block) # {} /\ stmt_depth = EmptyDict /\ stmt_iters = EmptyDict
    /\ pc \in {"matrix", "done"} =>
        /\ Refused(block) = {}
        /\ Range(stmt_depth.keys) = {InfoOf(k).stmt : k \in block}
        /\ Range(stmt_iters.keys) = {InfoOf(k).stmt : k \in block}
        /\ \A s \in Range(stmt_depth.keys) :
              LET last == InfoOf(LastInfo(block, s)) IN
              /\ stmt_depth.val[s] = ParseInt(python, last.depth)
              /\ Len(last.iters) = 0 => stmt_iters.val[s] = <<>>
              /\ Len(last.iters) > 0 =>
                    /\ Join(stmt_iters.val[s], <<44>>) = SelectSeq(last.iters, NotBlank)
                    /\ \A k \in 1..Len(stmt_iters.val[s]) :
                          44 \notin Range(stmt_iters.val[s][k])

\* header, a line that does not match (an edge), a metadata line that is
\* recorded, the end of the block by a '#' line that holds an edge, and a
\* metadata line of another depth that is not recorded.
C7_Witness ==
    /\ pc = "done"
    /\ \E h \in 1..Len(file) : \E o \in 1..Len(file) : \E r \in 1..Len(file) :
       \E t \in 1..Len(file) : \E a \in 1..Len(file) :
          /\ h < o /\ o < r /\ r < t /\ t < a
          /\ file[h].header
          /\ EdgeMatch(python, file[o]) /\ ~InfoMatch(python, file[o])
          /\ ~EndsBlock(file[o])
          /\ InfoMatch(python, file[r])
          /\ file[t].hash /\ EdgeMatch(python, file[t])
          /\ InfoMatch(python, file[a]) /\ InfoOf(a).stmt = InfoOf(r).stmt
          /\ InfoOf(a).depth # InfoOf(r).depth
          /\ Get(stmt_depth, InfoOf(r).stmt) = <<ParseInt(python, InfoOf(r).depth)>>

----------------------------------------------------------------------------
(* C8: the cell of two distinct nodes of which at least one has a          *)
(* statement absent from the metadata is NOT_APPLICABLE or                 *)
(* NO_COMMON_ITERATOR, and a matrix is built for every variable.           *)
C8_AbsentNaOrDash ==
    /\ ~RecursionError
    /\ pc = "done" => Len(out) = Len(var_graphs.keys)
    /\ \A k \in Outs :
          LET o == out[k] IN
          \A i \in Idx(o) : \A j \in Idx(o) :
              (i # j /\ (~Known(o.nodes[i]) \/ ~Known(o.nodes[j])))
              => IsNotApplicable(o.M[i][j]) \/ IsDash(o.M[i][j])

----------------------------------------------------------------------------
(* C9: on a graph that is a simple chain, the number of dfs calls active   *)
(* at one time does not grow with the length of the chain: it is no more   *)
(* than on the chain of two nodes (the traversal keeps its own work-stack  *)
(* and does not nest a call per node), and no chain exhausts the call      *)
(* stack.                                                                  *)
ChainOfTwo ==
    build_var_graphs(python, <<EdgeLine(S1, Ref0, S2, Ref0, VarA)>>).val[VarA]

C9_CallsDoNotGrow ==
    /\ RecursionError => ~IsChain(RaisedGraph)
    /\ \A k \in Outs :
          IsChain(out[k].graph) =>
              out[k].max_calls <= TarjanRun(python, ChainOfTwo, frames).max_calls

----------------------------------------------------------------------------
(* C10: with the metadata table fixed, build_cycle_matrix gives the same   *)
(* matrix and node list for every order of the file's edge lines, and also *)
(* when one of the lines is repeated.                                      *)
EdgeLinesOf(lines) == SelectSeq(lines, LAMBDA l : EdgeMatch(python, l))

Orders(n) == {p \in [1..n -> 1..n] : \A x \in 1..n : \E y \in 1..n : p[y] = x}

\* the lines in the order p, followed by line r of them once more (r = 0: none).
Reordered(lines, p, r) ==
    [k \in 1..Len(lines) |-> lines[p[k]]] \o (IF r = 0 THEN <<>> ELSE <<lines[p[r]]>>)

\* what build_cycle_matrix gives for the variable when the lines are reordered.
MatrixOfReordered(var, p, r) ==
    build_cycle_matrix(python,
        build_var_graphs(python, Reordered(EdgeLinesOf(file), p, r)).val[var],
        stmt_depth, stmt_iters, frames)

C10_OrderIrrelevant ==
    /\ \A k \in Outs :
          \A p \in Orders(Len(EdgeLinesOf(file))) : \A r \in 0..Len(EdgeLinesOf(file)) :
              LET m == MatrixOfReordered(out[k].var, p, r)
              IN  ~m.raised /\ SameMatrix(m.M, out[k].M) /\ m.nodes = out[k].nodes
    /\ RecursionError =>
          \A p \in Orders(Len(EdgeLinesOf(file))) : \A r \in 0..Len(EdgeLinesOf(file)) :
              MatrixOfReordered(var_graphs.keys[vi + 1], p, r).raised

====
